---- MODULE Spec2Model ----
(***************************************************************************)
(* Model of the Encar crawl controller (src/runScraper.py): identifier     *)
(* normalisation, the flat-list result store, the SQLite record sink, the  *)
(* page fetcher outcomes and the per-year pagination loop of               *)
(* scrape_trucks, run in cycles by main.                                   *)
(*                                                                         *)
(* Strings are sequences of one-character strings so that strip, isdigit,  *)
(* int() and str() are computed, not assumed.  A JSON / Python value is a  *)
(* record [kind, n, s] with kind "missing" (key absent), "null", "int"     *)
(* (value n) or "str" (value s).                                           *)
(***************************************************************************)
EXTENDS Integers, Sequences, FiniteSets, TLC

VARIABLES
    pc,                 \* "idle" | "crawl" | "done" | "killed" | "stopped" |
                        \* "probe" | "sink"
    cycle,              \* cycle_number of main
    year,               \* loop variable of scrape_trucks
    offset,             \* offset of the next request
    all_repeat_count,   \* repeat budget of the current year
    collected,          \* list of stored values (the {"id": v} entries)
    seen_ids,           \* set of canonical keys
    outfile,            \* OUTPUT_FILE on disk
    db,                 \* rows of table cars in DB_FILE
    hist,               \* what the last step did (observation only)
    probe               \* argument and results of normalize_car_id on its own

vars == <<pc, cycle, year, offset, all_repeat_count, collected, seen_ids,
          outfile, db, hist, probe>>

----------------------------------------------------------------------------
(* Program constants *)

START_YEAR == 2025
PAGE_SIZE == 1000
OFFSET_STEP == PAGE_SIZE
INITIAL_OFFSET == 0
DOUBLE_PAGES_TO_SKIP == 10

(* Bounds of the model *)

NumYears == 2       \* years START_YEAR .. START_YEAR - NumYears + 1 are crawled
MaxPageLen == 2     \* records on one page
MaxCycles == 2      \* cycles of main that SpecCycles and SpecCrash explore
MaxIdLen == 3       \* characters of a raw identifier given to normalize_car_id alone

\* 2008 in the source; the model crawls the NumYears youngest years
MIN_YEAR == START_YEAR - NumYears + 1

----------------------------------------------------------------------------
(* Python values and strings *)

DigitChars == {"0", "1", "2", "3", "4", "5", "6", "7", "8", "9"}

DigitVal(c) ==
    CASE c = "0" -> 0 [] c = "1" -> 1 [] c = "2" -> 2 [] c = "3" -> 3
      [] c = "4" -> 4 [] c = "5" -> 5 [] c = "6" -> 6 [] c = "7" -> 7
      [] c = "8" -> 8 [] c = "9" -> 9

DigitChar(d) ==
    CASE d = 0 -> "0" [] d = 1 -> "1" [] d = 2 -> "2" [] d = 3 -> "3"
      [] d = 4 -> "4" [] d = 5 -> "5" [] d = 6 -> "6" [] d = 7 -> "7"
      [] d = 8 -> "8" [] d = 9 -> "9"

Missing == [kind |-> "missing", n |-> 0, s |-> <<>>]
None == [kind |-> "null", n |-> 0, s |-> <<>>]
PyInt(i) == [kind |-> "int", n |-> i, s |-> <<>>]
PyStr(str) == [kind |-> "str", n |-> 0, s |-> str]

\* int(s) for a string of decimal digits
RECURSIVE ParseInt(_)
ParseInt(s) ==
    IF s = <<>> THEN 0
    ELSE 10 * ParseInt(SubSeq(s, 1, Len(s) - 1)) + DigitVal(s[Len(s)])

\* str(i) for an int i >= 0
RECURSIVE IntToStr(_)
IntToStr(i) ==
    IF i < 10 THEN <<DigitChar(i)>>
    ELSE IntToStr(i \div 10) \o <<DigitChar(i % 10)>>

\* str(v)
ToStr(v) ==
    CASE v.kind = "int" -> IntToStr(v.n)
      [] v.kind = "str" -> v.s
      [] OTHER -> <<"N", "o", "n", "e">>

\* s.strip()
RECURSIVE LStrip(_)
LStrip(s) ==
    IF s # <<>> /\ s[1] = " " THEN LStrip(Tail(s)) ELSE s

RECURSIVE RStrip(_)
RStrip(s) ==
    IF s # <<>> /\ s[Len(s)] = " " THEN RStrip(SubSeq(s, 1, Len(s) - 1)) ELSE s

Strip(s) == RStrip(LStrip(s))

\* s.isdigit()
IsDigit(s) == s # <<>> /\ \A i \in 1..Len(s) : s[i] \in DigitChars

----------------------------------------------------------------------------
(* normalize_car_id: NoId when it returns None, else [key, stored] *)

NoId == [ok |-> FALSE, key |-> <<>>, stored |-> None]

\* as normalize_car_id, but the key is the string before strip()
normalize_car_id_unstripped(raw_id) ==
    IF raw_id.kind \in {"missing", "null"} THEN NoId
    ELSE LET raw_str == Strip(ToStr(raw_id)) IN
         IF raw_str = <<>> THEN NoId
         ELSE IF IsDigit(raw_str)
              THEN [ok |-> TRUE, key |-> ToStr(raw_id), stored |-> PyInt(ParseInt(raw_str))]
              ELSE [ok |-> TRUE, key |-> ToStr(raw_id), stored |-> PyStr(raw_str)]

normalize_car_id(raw_id) ==
    IF raw_id.kind \in {"missing", "null"} THEN NoId
    ELSE LET raw_str == Strip(ToStr(raw_id)) IN
         IF raw_str = <<>> THEN NoId
         ELSE IF IsDigit(raw_str)
              THEN [ok |-> TRUE, key |-> raw_str, stored |-> PyInt(ParseInt(raw_str))]
              ELSE [ok |-> TRUE, key |-> raw_str, stored |-> PyStr(raw_str)]

----------------------------------------------------------------------------
(* Result store: OUTPUT_FILE is [kind, entries]; kind "absent", "garbage"  *)
(* (open fails or the text is not valid JSON), "undecodable" (the bytes    *)
(* are not UTF-8), "notlist" or "list".  An entry is                       *)
(* [dict, id, Id]: dict says whether it is a JSON object, id / Id are the  *)
(* values under the two spellings (Missing when the key is absent).        *)

FileAbsent == [kind |-> "absent", entries |-> <<>>]
FileGarbage == [kind |-> "garbage", entries |-> <<>>]
FileUndecodable == [kind |-> "undecodable", entries |-> <<>>]
FileNotList == [kind |-> "notlist", entries |-> <<>>]
FileList(es) == [kind |-> "list", entries |-> es]

Entry(v) == [dict |-> TRUE, id |-> v, Id |-> Missing]

\* the for loop of load_existing_results over data[1..k]
RECURSIVE LoadEntries(_, _)
LoadEntries(data, k) ==
    IF k = 0 THEN [collected |-> <<>>, seen_ids |-> {}]
    ELSE LET acc == LoadEntries(data, k - 1)
             entry == data[k]
             raw_id == IF entry.id.kind # "missing" THEN entry.id
                       ELSE IF entry.Id.kind # "missing" THEN entry.Id ELSE None
             normalized == normalize_car_id(raw_id)
         IN  IF ~entry.dict THEN acc
             ELSE IF ~normalized.ok THEN acc
             ELSE [collected |-> Append(acc.collected, normalized.stored),
                   seen_ids |-> acc.seen_ids \cup {normalized.key}]

\* load_existing_results: what it returns, or raised when an exception
\* leaves it: json.load raises UnicodeDecodeError on bytes that are not
\* UTF-8, and line 184 catches OSError and json.JSONDecodeError only.
\* out is "ok" or "oserror" (open or read raises OSError on a file that is
\* there, whatever it holds).
load_existing_results(file, out) ==
    IF file.kind = "absent" \/ out = "oserror"
    THEN [raised |-> FALSE, collected |-> <<>>, seen_ids |-> {}]
    ELSE IF file.kind = "undecodable"
    THEN [raised |-> TRUE, collected |-> <<>>, seen_ids |-> {}]
    ELSE IF file.kind # "list"
    THEN [raised |-> FALSE, collected |-> <<>>, seen_ids |-> {}]
    ELSE LET loaded == LoadEntries(file.entries, Len(file.entries))
         IN  [raised |-> FALSE, collected |-> loaded.collected,
              seen_ids |-> loaded.seen_ids]

\* json.dump(cars): one {"id": stored} object per entry
DumpEntries(cars) == [i \in 1..Len(cars) |-> Entry(cars[i])]

\* as save_results, but a successful call appends the newest entry to the
\* list in the file
save_results_append(file, cars, out) ==
    CASE out = "ok" ->
             FileList((IF file.kind = "list" THEN file.entries ELSE <<>>)
                        \o (IF cars = <<>> THEN <<>> ELSE <<Entry(cars[Len(cars)])>>))
      [] out = "fail_open" -> file
      [] out = "fail_write" -> FileGarbage

\* save_results; out is "ok", "fail_open" (OSError in open, file untouched)
\* or "fail_write" (OSError after open(.., "w") truncated the file)
save_results(file, cars, out) ==
    CASE out = "ok" -> FileList(DumpEntries(cars))
      [] out = "fail_open" -> file
      [] out = "fail_write" -> FileGarbage

----------------------------------------------------------------------------
(* Record sink: db is the set of committed rows [id, attr, collected_at]   *)
(* of table cars; a raw record of a page is [Id, attr], attr standing for  *)
(* the columns condition .. modified_date that extract_car_data copies.    *)

\* extract_car_data: car_id = str(car.get("Id", "")), None when empty
extract_car_data(car) ==
    LET car_id == IF car.Id.kind = "missing" THEN <<>> ELSE ToStr(car.Id)
    IN  IF car_id = <<>> THEN [ok |-> FALSE, id |-> <<>>, attr |-> car.attr]
        ELSE [ok |-> TRUE, id |-> car_id, attr |-> car.attr]

\* as InsertOrReplace, but INSERT OR IGNORE: a row that is there stays
InsertOrIgnore(rows, row) ==
    IF \E r \in rows : r.id = row.id THEN rows ELSE rows \cup {row}

\* INSERT OR REPLACE on PRIMARY KEY id
InsertOrReplace(rows, row) == {r \in rows : r.id # row.id} \cup {row}

\* the for loop of save_cars_to_db_batch over cars[1..k], inside the
\* transaction the first execute opens: the rows as the connection sees
\* them and saved_count
RECURSIVE UpsertAll(_, _, _, _)
UpsertAll(rows, cars, k, collected_at) ==
    IF k = 0 THEN [rows |-> rows, saved_count |-> 0]
    ELSE LET before == UpsertAll(rows, cars, k - 1, collected_at)
             car_data == extract_car_data(cars[k])
         IN  IF ~car_data.ok THEN before
             ELSE [rows |-> InsertOrReplace(before.rows,
                                [id |-> car_data.id, attr |-> car_data.attr,
                                 collected_at |-> collected_at]),
                   saved_count |-> before.saved_count + 1]

\* as save_cars_to_db_batch, but every execute is committed on its own: an
\* error at the last record leaves the rows of the records before it
save_cars_to_db_batch_autocommit(rows, cars, collected_at, out) ==
    IF cars = <<>> THEN [rows |-> rows, saved_count |-> 0]
    ELSE IF out = "ok" THEN UpsertAll(rows, cars, Len(cars), collected_at)
    ELSE [rows |-> UpsertAll(rows, cars, Len(cars) - 1, collected_at).rows,
          saved_count |-> 0]

\* save_cars_to_db_batch: the committed rows after the call and the value
\* returned.  out is "ok" or "error": sqlite3.Error raised by connect, by
\* an execute or by commit; the transaction is never committed and is
\* rolled back when the connection is closed.
save_cars_to_db_batch(rows, cars, collected_at, out) ==
    IF cars = <<>> THEN [rows |-> rows, saved_count |-> 0]
    ELSE IF out = "ok" THEN UpsertAll(rows, cars, Len(cars), collected_at)
    ELSE [rows |-> rows, saved_count |-> 0]

----------------------------------------------------------------------------
(* The for loop of scrape_trucks over page_results[1..k] *)

\* as IsNew, but an identifier is new when no identifier seen has its
\* stored value
IsNew_by_stored_value(car_id_str, seen) ==
    \A k \in seen :
        normalize_car_id(PyStr(k)).stored # normalize_car_id(PyStr(car_id_str)).stored

\* if car_id_str not in seen_ids
IsNew(car_id_str, seen) == car_id_str \notin seen

\* as ScanPage, but only the new cars are put in cars_to_save
RECURSIVE ScanPage_new_only(_, _, _, _)
ScanPage_new_only(page_results, k, coll, seen) ==
    IF k = 0
    THEN [collected |-> coll, seen_ids |-> seen, new_count |-> 0,
          repeat_count |-> 0, cars_to_save |-> <<>>]
    ELSE LET acc == ScanPage_new_only(page_results, k - 1, coll, seen)
             car == page_results[k]
             normalized == normalize_car_id(car.Id)
         IN  IF ~normalized.ok THEN acc
             ELSE IF IsNew(normalized.key, acc.seen_ids)
             THEN [collected |-> Append(acc.collected, normalized.stored),
                   seen_ids |-> acc.seen_ids \cup {normalized.key},
                   new_count |-> acc.new_count + 1,
                   repeat_count |-> acc.repeat_count,
                   cars_to_save |-> Append(acc.cars_to_save, car)]
             ELSE [collected |-> acc.collected,
                   seen_ids |-> acc.seen_ids,
                   new_count |-> acc.new_count,
                   repeat_count |-> acc.repeat_count + 1,
                   cars_to_save |-> acc.cars_to_save]

\* as ScanPage, but a new entry is put at the head of collected
RECURSIVE ScanPage_newest_first(_, _, _, _)
ScanPage_newest_first(page_results, k, coll, seen) ==
    IF k = 0
    THEN [collected |-> coll, seen_ids |-> seen, new_count |-> 0,
          repeat_count |-> 0, cars_to_save |-> <<>>]
    ELSE LET acc == ScanPage_newest_first(page_results, k - 1, coll, seen)
             car == page_results[k]
             normalized == normalize_car_id(car.Id)
         IN  IF ~normalized.ok THEN acc
             ELSE IF IsNew(normalized.key, acc.seen_ids)
             THEN [collected |-> <<normalized.stored>> \o acc.collected,
                   seen_ids |-> acc.seen_ids \cup {normalized.key},
                   new_count |-> acc.new_count + 1,
                   repeat_count |-> acc.repeat_count,
                   cars_to_save |-> Append(acc.cars_to_save, car)]
             ELSE [collected |-> acc.collected,
                   seen_ids |-> acc.seen_ids,
                   new_count |-> acc.new_count,
                   repeat_count |-> acc.repeat_count + 1,
                   cars_to_save |-> Append(acc.cars_to_save, car)]

RECURSIVE ScanPage(_, _, _, _)
ScanPage(page_results, k, coll, seen) ==
    IF k = 0
    THEN [collected |-> coll, seen_ids |-> seen, new_count |-> 0,
          repeat_count |-> 0, cars_to_save |-> <<>>]
    ELSE LET acc == ScanPage(page_results, k - 1, coll, seen)
             car == page_results[k]
             normalized == normalize_car_id(car.Id)
         IN  IF ~normalized.ok THEN acc
             ELSE IF IsNew(normalized.key, acc.seen_ids)
             THEN [collected |-> Append(acc.collected, normalized.stored),
                   seen_ids |-> acc.seen_ids \cup {normalized.key},
                   new_count |-> acc.new_count + 1,
                   repeat_count |-> acc.repeat_count,
                   cars_to_save |-> Append(acc.cars_to_save, car)]
             ELSE [collected |-> acc.collected,
                   seen_ids |-> acc.seen_ids,
                   new_count |-> acc.new_count,
                   repeat_count |-> acc.repeat_count + 1,
                   cars_to_save |-> Append(acc.cars_to_save, car)]

----------------------------------------------------------------------------
(* Inputs of the environment *)

RECURSIVE SeqsUpTo(_, _)
SeqsUpTo(S, n) ==
    IF n = 0 THEN {<<>>}
    ELSE LET shorter == SeqsUpTo(S, n - 1)
         IN  shorter \cup {Append(q, x) : q \in {t \in shorter : Len(t) = n - 1}, x \in S}

\* non-empty pages of at most MaxPageLen of the records cars
PagesOf(cars) == SeqsUpTo(cars, MaxPageLen) \ {<<>>}

\* fetch_page returning None
FetchErrors == {"transport", "status", "decode"}

\* COOKIES_FILE as load_cookies and load_headers see it: absent, not
\* readable as JSON, an object with headers and an empty or no cookie list,
\* with cookies and no headers, with both
Credentials == {"absent", "unparseable", "no_cookies", "cookies_only", "cookies_and_headers"}

\* as load_cookies, but an empty cookie list is returned as it is
load_cookies_any_list(cred) == cred \notin {"absent", "unparseable"}

\* load_cookies returns cookies (TRUE) or None (FALSE)
load_cookies(cred) == cred \in {"cookies_only", "cookies_and_headers"}

\* load_headers returns headers (TRUE) or None (FALSE)
load_headers(cred) == cred \in {"no_cookies", "cookies_and_headers"}

\* hist: op is the step taken, fetch what fetch_page returned, page the
\* page, cars_to_save the batch handed to save_cars_to_db_batch with
\* collected_at, db_out its outcome and saved_count the value it returned,
\* page_save / final_save the arguments of the save_results
\* calls of the step (line 372 / line 388) and save_out the outcome of the
\* call (a step makes at most one), failed_saves the save_results calls of
\* this run that failed, zero_pages the pages of the
\* current year that added nothing, keys the canonical keys loaded or met
\* on a page in this run, at_start the keys recoverable from the file when
\* the cycle began, cred the credential file a step that starts a cycle
\* found, year_seen the value of seen_ids when the current year began,
\* pauses the time.sleep(REQUEST_PAUSE_SECONDS) calls the step made after
\* its request, cycle_pause the time.sleep(CYCLE_PAUSE) calls of a step
\* that starts a cycle and after the op of the step that ended the cycle
\* before it.
NoHist ==
    [op |-> "init", fetch |-> "none", new_count |-> 0, page |-> <<>>,
     cars_to_save |-> <<>>, collected_at |-> 0, db_out |-> "none",
     saved_count |-> 0, page_save |-> <<>>,
     final_save |-> <<>>, save_out |-> "none", failed_saves |-> 0,
     zero_pages |-> 0, keys |-> {}, at_start |-> {}, cred |-> "none",
     year_seen |-> {}, pauses |-> 0, cycle_pause |-> 0, after |-> "none"]

\* as Pause, but the call is left out
Pause_skipped(h) == h

\* time.sleep(REQUEST_PAUSE_SECONDS), recorded in the history h of the step
Pause(h) == [h EXCEPT !.pauses = @ + 1]

\* the canonical keys a read of the file without OSError recovers
Recoverable(file) == load_existing_results(file, "ok").seen_ids

NoProbe == [raw |-> None, results |-> <<>>]

\* canonical keys of the records of a page
PageKeys(page_results) ==
    {normalize_car_id(page_results[i].Id).key :
        i \in {j \in 1..Len(page_results) : normalize_car_id(page_results[j].Id).ok}}

----------------------------------------------------------------------------
(* State machine *)

InitWith(files) ==
    /\ pc = "idle"
    /\ cycle = 0
    /\ year = START_YEAR
    /\ offset = INITIAL_OFFSET
    /\ all_repeat_count = DOUBLE_PAGES_TO_SKIP
    /\ collected = <<>>
    /\ seen_ids = {}
    /\ outfile \in files
    /\ db = {}
    /\ hist = NoHist
    /\ probe = NoProbe

\* as AfterRaise, but main has no except clause: the exception ends the
\* process
AfterRaise_uncaught == "stopped"

\* an exception has left scrape_trucks: except Exception catches and logs
\* it, finally logs the end of the cycle: the cycle is over as after a
\* return
AfterRaise == "done"

\* main: one more iteration of while True, up to the first fetch of
\* scrape_trucks (load_cookies, create_session_with_cookies,
\* load_existing_results); also the restart of a killed process.
\* cycles is the number of cycles that are explored, load_outs the
\* outcomes the read of OUTPUT_FILE can have.
StartCycle(cred, cycles, load_outs) ==
    /\ pc \in {"idle", "done", "killed"}
    /\ cycle < cycles
    /\ cycle' = cycle + 1
    /\ UNCHANGED <<outfile, db, probe>>
    /\ LET \* after a cycle main logs its end (finally) and sleeps CYCLE_PAUSE
           \* before the next iteration
           h == [NoHist EXCEPT !.cred = cred,
                               !.at_start = Recoverable(outfile),
                               !.cycle_pause = IF pc = "done" THEN 1 ELSE 0,
                               !.after = IF pc = "done" THEN hist.op ELSE "none"]
       IN
       IF ~load_cookies(cred)
       THEN \* load_cookies returns None: scrape_trucks returns
            /\ pc' = "done"
            /\ hist' = [h EXCEPT !.op = "nocred"]
            /\ UNCHANGED <<year, offset, all_repeat_count, collected, seen_ids>>
       ELSE IF ~load_headers(cred)
       THEN \* load_headers returns None, session.headers.update(None) raises
            \* TypeError
            /\ pc' = AfterRaise
            /\ hist' = [h EXCEPT !.op = "exc"]
            /\ UNCHANGED <<year, offset, all_repeat_count, collected, seen_ids>>
       ELSE \E load_out \in load_outs :
            \E loaded \in {load_existing_results(outfile, load_out)} :
            IF loaded.raised
            THEN \* the exception leaves scrape_trucks
                 /\ pc' = AfterRaise
                 /\ hist' = [h EXCEPT !.op = "exc"]
                 /\ UNCHANGED <<year, offset, all_repeat_count, collected, seen_ids>>
            ELSE /\ pc' = "crawl"
                 /\ collected' = loaded.collected
                 /\ seen_ids' = loaded.seen_ids
                 /\ year' = START_YEAR
                 /\ offset' = INITIAL_OFFSET
                 /\ all_repeat_count' = DOUBLE_PAGES_TO_SKIP
                 /\ hist' = [h EXCEPT !.op = "start",
                                      !.keys = loaded.seen_ids,
                                      !.year_seen = loaded.seen_ids]

\* as EndYear, but scrape_trucks returns after the last year without the
\* final save_results
EndYear_no_final_save(h, file, cars, budget, save_outs) ==
    IF year > MIN_YEAR
    THEN /\ year' = year - 1
         /\ offset' = INITIAL_OFFSET
         /\ all_repeat_count' = DOUBLE_PAGES_TO_SKIP
         /\ pc' = "crawl"
         /\ outfile' = file
         /\ hist' = Pause([h EXCEPT !.zero_pages = 0, !.year_seen = seen_ids'])
    ELSE /\ UNCHANGED <<year, offset>>
         /\ all_repeat_count' = budget
         /\ pc' = "done"
         /\ outfile' = file
         /\ hist' = Pause(h)

\* as EndYear, but the next year goes on with the budget the year before
\* left
EndYear_keeps_budget(h, file, cars, budget, save_outs) ==
    IF year > MIN_YEAR
    THEN /\ year' = year - 1
         /\ offset' = INITIAL_OFFSET
         /\ all_repeat_count' = budget
         /\ pc' = "crawl"
         /\ outfile' = file
         /\ hist' = Pause([h EXCEPT !.zero_pages = 0, !.year_seen = seen_ids'])
    ELSE /\ UNCHANGED <<year, offset>>
         /\ all_repeat_count' = budget
         /\ pc' = "done"
         /\ \E final_out \in save_outs :
              /\ outfile' = save_results(file, cars, final_out)
              /\ hist' = Pause([h EXCEPT !.final_save = <<cars>>,
                                         !.save_out = final_out,
                                         !.failed_saves =
                                             IF final_out = "ok" THEN @ ELSE @ + 1])

\* as EndYear, but the for loop stops before MIN_YEAR
\* (range(START_YEAR, MIN_YEAR, -1))
EndYear_min_year_excluded(h, file, cars, budget, save_outs) ==
    IF year > MIN_YEAR + 1
    THEN /\ year' = year - 1
         /\ offset' = INITIAL_OFFSET
         /\ all_repeat_count' = DOUBLE_PAGES_TO_SKIP
         /\ pc' = "crawl"
         /\ outfile' = file
         /\ hist' = Pause([h EXCEPT !.zero_pages = 0, !.year_seen = seen_ids'])
    ELSE /\ UNCHANGED <<year, offset>>
         /\ all_repeat_count' = budget
         /\ pc' = "done"
         /\ \E final_out \in save_outs :
              /\ outfile' = save_results(file, cars, final_out)
              /\ hist' = Pause([h EXCEPT !.final_save = <<cars>>,
                                         !.save_out = final_out,
                                         !.failed_saves =
                                             IF final_out = "ok" THEN @ ELSE @ + 1])

\* break out of while True: the next year of the for loop, or after the
\* last year the final save_results and the return.  h is the history of
\* the step so far, file the file after the step's own save, budget the
\* value of all_repeat_count at the break.
EndYear(h, file, cars, budget, save_outs) ==
    IF year > MIN_YEAR
    THEN /\ year' = year - 1
         /\ offset' = INITIAL_OFFSET
         /\ all_repeat_count' = DOUBLE_PAGES_TO_SKIP
         /\ pc' = "crawl"
         /\ outfile' = file
         /\ hist' = Pause([h EXCEPT !.zero_pages = 0, !.year_seen = seen_ids'])
    ELSE /\ UNCHANGED <<year, offset>>
         /\ all_repeat_count' = budget
         /\ pc' = "done"
         /\ \E final_out \in save_outs :
              /\ outfile' = save_results(file, cars, final_out)
              /\ hist' = Pause([h EXCEPT !.final_save = <<cars>>,
                                         !.save_out = final_out,
                                         !.failed_saves =
                                             IF final_out = "ok" THEN @ ELSE @ + 1])

\* as FetchFail, but with return in place of break
FetchFail_return(err, save_outs) ==
    /\ pc = "crawl"
    /\ pc' = "done"
    /\ hist' = [NoHist EXCEPT !.op = "fetch_fail", !.fetch = err,
                              !.zero_pages = hist.zero_pages, !.keys = hist.keys,
                              !.failed_saves = hist.failed_saves,
                              !.at_start = hist.at_start,
                              !.year_seen = hist.year_seen]
    /\ UNCHANGED <<cycle, year, offset, all_repeat_count, collected, seen_ids,
                   outfile, db, probe>>

\* as FetchFail, but the request that failed is made again (continue in
\* place of break)
FetchFail_retries(err, save_outs) ==
    /\ pc = "crawl"
    /\ hist' = [NoHist EXCEPT !.op = "fetch_fail", !.fetch = err,
                              !.zero_pages = hist.zero_pages, !.keys = hist.keys,
                              !.failed_saves = hist.failed_saves,
                              !.at_start = hist.at_start,
                              !.year_seen = hist.year_seen]
    /\ UNCHANGED <<pc, cycle, year, offset, all_repeat_count, collected, seen_ids,
                   outfile, db, probe>>

\* fetch_page returns None
FetchFail(err, save_outs) ==
    /\ pc = "crawl"
    /\ UNCHANGED <<cycle, collected, seen_ids, db, probe>>
    /\ EndYear([NoHist EXCEPT !.op = "fetch_fail", !.fetch = err,
                              !.zero_pages = hist.zero_pages, !.keys = hist.keys,
                              !.failed_saves = hist.failed_saves,
                              !.at_start = hist.at_start,
                              !.year_seen = hist.year_seen],
               outfile, collected, all_repeat_count, save_outs)

\* as FetchEmpty, but an empty page is taken for a page without new
\* entries: it takes one from the budget and the next offset is requested
FetchEmpty_counts_as_repeat(save_outs) ==
    /\ pc = "crawl"
    /\ UNCHANGED <<cycle, collected, seen_ids, db, probe>>
    /\ LET h == [NoHist EXCEPT !.op = "empty", !.fetch = "empty",
                               !.zero_pages = hist.zero_pages + 1,
                               !.keys = hist.keys,
                               !.failed_saves = hist.failed_saves,
                               !.at_start = hist.at_start,
                               !.year_seen = hist.year_seen]
       IN  IF all_repeat_count - 1 < 0
           THEN EndYear(h, outfile, collected, all_repeat_count - 1, save_outs)
           ELSE /\ all_repeat_count' = all_repeat_count - 1
                /\ offset' = offset + OFFSET_STEP
                /\ hist' = Pause(h)
                /\ UNCHANGED <<pc, year, outfile>>

\* fetch_page returns []
FetchEmpty(save_outs) ==
    /\ pc = "crawl"
    /\ UNCHANGED <<cycle, collected, seen_ids, db, probe>>
    /\ EndYear([NoHist EXCEPT !.op = "empty", !.fetch = "empty",
                              !.zero_pages = hist.zero_pages, !.keys = hist.keys,
                              !.failed_saves = hist.failed_saves,
                              !.at_start = hist.at_start,
                              !.year_seen = hist.year_seen],
               outfile, collected, all_repeat_count, save_outs)

\* as ShouldSave, but a page that added a single entry is not saved
ShouldSave_more_than_one(new_count) == new_count > 1

\* if new_count > 0: save_results(logger, collected)
ShouldSave(new_count) == new_count > 0

\* as NextBudget, but every page takes one from the budget
NextBudget_every_page(budget, new_count) == budget - 1

\* as NextBudget, but a page that added entries sets the budget to the
\* threshold again
NextBudget_restored_by_new(budget, new_count) ==
    IF new_count = 0 THEN budget - 1 ELSE DOUBLE_PAGES_TO_SKIP

\* if new_count == 0: all_repeat_count -= 1
NextBudget(budget, new_count) ==
    IF new_count = 0 THEN budget - 1 ELSE budget

\* as BudgetExhausted, but the year stops when the budget reaches zero
BudgetExhausted_at_zero(budget) == budget <= 0

\* if all_repeat_count < 0: break
BudgetExhausted(budget) == budget < 0

\* as ProcessPage, but a failed sink write ends the year
ProcessPage_sink_error_breaks(page_results, times, db_outs, save_outs) ==
    /\ pc = "crawl"
    /\ \E scan \in {ScanPage(page_results, Len(page_results), collected, seen_ids)} :
       LET new_count == scan.new_count
           budget == NextBudget(all_repeat_count, new_count)
       IN  /\ collected' = scan.collected
           /\ seen_ids' = scan.seen_ids
           /\ UNCHANGED <<cycle, probe>>
           /\ \E collected_at \in IF scan.cars_to_save # <<>> THEN times ELSE {0},
                 db_out \in IF scan.cars_to_save # <<>> THEN db_outs ELSE {"none"},
                 save_out \in IF ShouldSave(new_count) THEN save_outs ELSE {"none"} :
                LET sink == IF scan.cars_to_save # <<>>
                            THEN save_cars_to_db_batch(db, scan.cars_to_save,
                                                       collected_at, db_out)
                            ELSE [rows |-> db, saved_count |-> 0]
                    file == IF ShouldSave(new_count)
                            THEN save_results(outfile, scan.collected, save_out)
                            ELSE outfile
                    h == [op |-> "page", fetch |-> "page", new_count |-> new_count,
                          page |-> page_results,
                          cars_to_save |-> scan.cars_to_save,
                          collected_at |-> collected_at,
                          db_out |-> db_out,
                          saved_count |-> sink.saved_count,
                          page_save |-> IF ShouldSave(new_count)
                                        THEN <<scan.collected>> ELSE <<>>,
                          final_save |-> <<>>,
                          save_out |-> save_out,
                          failed_saves |-> IF save_out \in {"none", "ok"}
                                           THEN hist.failed_saves
                                           ELSE hist.failed_saves + 1,
                          zero_pages |-> IF new_count = 0 THEN hist.zero_pages + 1
                                         ELSE hist.zero_pages,
                          keys |-> hist.keys \cup PageKeys(page_results),
                          at_start |-> hist.at_start, cred |-> "none",
                          year_seen |-> hist.year_seen, pauses |-> 0,
                          cycle_pause |-> 0, after |-> "none"]
                IN  /\ db' = sink.rows
                    /\ IF BudgetExhausted(budget) \/ db_out = "error"
                       THEN EndYear(h, file, scan.collected, budget, save_outs)
                       ELSE /\ all_repeat_count' = budget
                            /\ offset' = offset + OFFSET_STEP
                            /\ outfile' = file
                            /\ hist' = Pause(h)
                            /\ UNCHANGED <<pc, year>>

\* fetch_page returns a non-empty page: one iteration of while True.
\* times are the values datetime.now() can have, db_outs and save_outs the
\* outcomes the sink and the store can have; one is drawn only where the
\* code makes the call.
ProcessPage(page_results, times, db_outs, save_outs) ==
    /\ pc = "crawl"
    /\ \E scan \in {ScanPage(page_results, Len(page_results), collected, seen_ids)} :
       LET new_count == scan.new_count
           budget == NextBudget(all_repeat_count, new_count)
       IN  /\ collected' = scan.collected
           /\ seen_ids' = scan.seen_ids
           /\ UNCHANGED <<cycle, probe>>
           /\ \E collected_at \in IF scan.cars_to_save # <<>> THEN times ELSE {0},
                 db_out \in IF scan.cars_to_save # <<>> THEN db_outs ELSE {"none"},
                 save_out \in IF ShouldSave(new_count) THEN save_outs ELSE {"none"} :
                LET sink == IF scan.cars_to_save # <<>>
                            THEN save_cars_to_db_batch(db, scan.cars_to_save,
                                                       collected_at, db_out)
                            ELSE [rows |-> db, saved_count |-> 0]
                    file == IF ShouldSave(new_count)
                            THEN save_results(outfile, scan.collected, save_out)
                            ELSE outfile
                    h == [op |-> "page", fetch |-> "page", new_count |-> new_count,
                          page |-> page_results,
                          cars_to_save |-> scan.cars_to_save,
                          collected_at |-> collected_at,
                          db_out |-> db_out,
                          saved_count |-> sink.saved_count,
                          page_save |-> IF ShouldSave(new_count)
                                        THEN <<scan.collected>> ELSE <<>>,
                          final_save |-> <<>>,
                          save_out |-> save_out,
                          failed_saves |-> IF save_out \in {"none", "ok"}
                                           THEN hist.failed_saves
                                           ELSE hist.failed_saves + 1,
                          zero_pages |-> IF new_count = 0 THEN hist.zero_pages + 1
                                         ELSE hist.zero_pages,
                          keys |-> hist.keys \cup PageKeys(page_results),
                          at_start |-> hist.at_start, cred |-> "none",
                          year_seen |-> hist.year_seen, pauses |-> 0,
                          cycle_pause |-> 0, after |-> "none"]
                IN  /\ db' = sink.rows
                    /\ IF BudgetExhausted(budget)
                       THEN EndYear(h, file, scan.collected, budget, save_outs)
                       ELSE /\ all_repeat_count' = budget
                            /\ offset' = offset + OFFSET_STEP
                            /\ outfile' = file
                            /\ hist' = Pause(h)
                            /\ UNCHANGED <<pc, year>>

\* fetch_page returns at every offset of a year the page it returned at
\* the first: page_results is any page at offset 0 and the page before at
\* the others
SamePage(page_results, times, db_outs, save_outs) ==
    /\ offset = INITIAL_OFFSET \/ hist.page = page_results
    /\ ProcessPage(page_results, times, db_outs, save_outs)

\* fetch_page returns a page with at least one identifier that is not in
\* seen_ids
ProductivePage(page_results, times, db_outs, save_outs) ==
    /\ ScanPage(page_results, Len(page_results), collected, seen_ids).new_count > 0
    /\ ProcessPage(page_results, times, db_outs, save_outs)

\* fetch_page raises: the body of a 200 response is JSON and not an
\* object (payload.get, line 171, raises AttributeError)
FetchRaises ==
    /\ pc = "crawl"
    /\ pc' = AfterRaise
    /\ hist' = [NoHist EXCEPT !.op = "exc", !.fetch = "raise",
                              !.zero_pages = hist.zero_pages, !.keys = hist.keys,
                              !.failed_saves = hist.failed_saves,
                              !.at_start = hist.at_start,
                              !.year_seen = hist.year_seen]
    /\ UNCHANGED <<cycle, year, offset, all_repeat_count, collected, seen_ids,
                   outfile, db, probe>>

\* the process is killed between two requests
KillBetweenPages ==
    /\ pc = "crawl"
    /\ pc' = "killed"
    /\ hist' = [NoHist EXCEPT !.op = "kill", !.zero_pages = hist.zero_pages,
                              !.keys = hist.keys,
                              !.failed_saves = hist.failed_saves,
                              !.at_start = hist.at_start,
                              !.year_seen = hist.year_seen]
    /\ UNCHANGED <<cycle, year, offset, all_repeat_count, collected, seen_ids,
                   outfile, db, probe>>

\* the process is killed inside save_results of a page that added entries,
\* after open(OUTPUT_FILE, "w") and before json.dump has finished
KillInSave(page_results, times, db_outs) ==
    /\ pc = "crawl"
    /\ \E scan \in {ScanPage(page_results, Len(page_results), collected, seen_ids)},
          collected_at \in times, db_out \in db_outs :
       \E sink \in {save_cars_to_db_batch(db, scan.cars_to_save, collected_at, db_out)} :
           /\ ShouldSave(scan.new_count)
           /\ collected' = scan.collected
           /\ seen_ids' = scan.seen_ids
           /\ db' = sink.rows
           /\ outfile' = FileGarbage
           /\ pc' = "killed"
           /\ hist' = [op |-> "kill", fetch |-> "page",
                       new_count |-> scan.new_count, page |-> page_results,
                       cars_to_save |-> scan.cars_to_save,
                       collected_at |-> collected_at, db_out |-> db_out,
                       saved_count |-> sink.saved_count,
                       page_save |-> <<scan.collected>>, final_save |-> <<>>,
                       save_out |-> "killed", failed_saves |-> hist.failed_saves,
                       zero_pages |-> hist.zero_pages,
                       keys |-> hist.keys \cup PageKeys(page_results),
                       at_start |-> hist.at_start, cred |-> "none",
                       year_seen |-> hist.year_seen, pauses |-> 0,
                       cycle_pause |-> 0, after |-> "none"]
           /\ UNCHANGED <<cycle, year, offset, all_repeat_count, probe>>

\* save_cars_to_db_batch called on its own with a batch of a page
UpsertBatch(cars, collected_at, db_out) ==
    /\ pc = "sink"
    /\ \E sink \in {save_cars_to_db_batch(db, cars, collected_at, db_out)} :
         /\ db' = sink.rows
         /\ hist' = [NoHist EXCEPT !.op = "batch", !.cars_to_save = cars,
                                   !.collected_at = collected_at,
                                   !.db_out = db_out,
                                   !.saved_count = sink.saved_count]
    /\ UNCHANGED <<pc, cycle, year, offset, all_repeat_count, collected, seen_ids,
                   outfile, probe>>

\* normalize_car_id applied to probe.raw, then to the string form of the
\* stored value it returned
Normalize ==
    /\ pc = "probe"
    /\ probe.results = <<>>
    /\ probe' = [probe EXCEPT !.results = <<normalize_car_id(probe.raw)>>]
    /\ UNCHANGED <<pc, cycle, year, offset, all_repeat_count, collected, seen_ids,
                   outfile, db, hist>>

Renormalize ==
    /\ pc = "probe"
    /\ Len(probe.results) = 1
    /\ probe.results[1].ok
    /\ probe' = [probe EXCEPT !.results =
                    Append(@, normalize_car_id(PyStr(ToStr(probe.results[1].stored))))]
    /\ UNCHANGED <<pc, cycle, year, offset, all_repeat_count, collected, seen_ids,
                   outfile, db, hist>>

----------------------------------------------------------------------------
(* Specifications *)

SaveOutcomes == {"ok", "fail_open", "fail_write"}
DbOutcomes == {"ok", "error"}

\* values of datetime.now().isoformat(): one where the time of a page does
\* not matter, two where it does
OneTime == {1}
Times == {1, 2}

\* Spec: one run of scrape_trucks with every failure of credentials,
\* fetch, store and sink
CrawlIds == {None, PyStr(<<"7">>)}
CrawlPages == PagesOf([Id : CrawlIds, attr : {"a1"}])

Init == InitWith({FileAbsent, FileList(<<Entry(PyInt(8))>>)})

Next ==
    \/ \E cred \in Credentials : StartCycle(cred, 1, {"ok"})
    \/ \E err \in FetchErrors : FetchFail(err, SaveOutcomes)
    \/ FetchEmpty(SaveOutcomes)
    \/ \E page_results \in CrawlPages :
           ProcessPage(page_results, OneTime, DbOutcomes, SaveOutcomes)

Spec == Init /\ [][Next]_vars

\* SpecCycles: cycles of main over a file of any content, with identifiers
\* that differ in leading zeros, and a store that never fails
CyclesIds == {None, PyStr(<<"7">>), PyStr(<<"0", "7">>)}
CyclesPages == PagesOf([Id : CyclesIds, attr : {"a1"}])

\* OUTPUT_FILE found by the first cycle
InitFiles ==
    { FileAbsent,
      FileGarbage,
      FileList(<<Entry(PyInt(7))>>),
      FileList(<<Entry(PyInt(7)), Entry(PyInt(7))>>) }

InitCycles == InitWith(InitFiles)

NextCycles ==
    \/ StartCycle("cookies_and_headers", MaxCycles, {"ok"})
    \/ FetchFail("transport", {"ok"})
    \/ FetchEmpty({"ok"})
    \/ \E page_results \in CyclesPages : ProcessPage(page_results, OneTime, {"ok"}, {"ok"})

SpecCycles == InitCycles /\ [][NextCycles]_vars

\* SpecCrash: a run with a store that never fails, and kills
CrashIds == {PyStr(<<"7">>), PyStr(<<"8">>)}
CrashPages == PagesOf([Id : CrashIds, attr : {"a1"}])

InitCrash == InitWith({FileAbsent, FileList(<<Entry(PyInt(7))>>)})

NextCrash ==
    \/ StartCycle("cookies_and_headers", MaxCycles, {"ok"})
    \/ FetchFail("transport", {"ok"})
    \/ FetchEmpty({"ok"})
    \/ \E page_results \in CrashPages : ProcessPage(page_results, OneTime, {"ok"}, {"ok"})
    \/ KillBetweenPages
    \/ \E page_results \in CrashPages : KillInSave(page_results, OneTime, {"ok"})

SpecCrash == InitCrash /\ [][NextCrash]_vars

\* SpecSink: a run with a record without identifier and two observations
\* of one listing that differ in their attributes
SinkCars ==
    { [Id |-> None, attr |-> "a1"],
      [Id |-> PyStr(<<"7", " ">>), attr |-> "a1"],
      [Id |-> PyStr(<<"7", " ">>), attr |-> "a2"] }
SinkPages == PagesOf(SinkCars)

InitSink == InitWith({FileAbsent})

NextSink ==
    \/ StartCycle("cookies_and_headers", 1, {"ok"})
    \/ FetchEmpty({"ok"})
    \/ \E page_results \in SinkPages : ProcessPage(page_results, OneTime, DbOutcomes, {"ok"})

SpecSink == InitSink /\ [][NextSink]_vars

\* SpecAccum: cycles of main with failures of the fetch, of the read of
\* the file and of its write
AccumPages == PagesOf([Id : {PyStr(<<"7">>)}, attr : {"a1"}])
LoadOutcomes == {"ok", "oserror"}

InitAccum == InitWith({FileAbsent, FileList(<<Entry(PyInt(8))>>)})

NextAccum ==
    \/ StartCycle("cookies_and_headers", MaxCycles, LoadOutcomes)
    \/ FetchFail("transport", SaveOutcomes)
    \/ FetchEmpty(SaveOutcomes)
    \/ \E page_results \in AccumPages :
           ProcessPage(page_results, OneTime, {"ok"}, SaveOutcomes)

SpecAccum == InitAccum /\ [][NextAccum]_vars

\* SpecZeros: a run over pages with one number written with leading
\* zeros, without, and as an integer
ZerosIds ==
    { PyStr(<<"0", "0", "0", "4", "2">>), PyStr(<<"4", "2">>), PyInt(42) }
ZerosPages == PagesOf([Id : ZerosIds, attr : {"a1"}])

InitZeros == InitWith({FileAbsent})

NextZeros ==
    \/ StartCycle("cookies_and_headers", 1, {"ok"})
    \/ FetchEmpty({"ok"})
    \/ \E page_results \in ZerosPages :
           ProcessPage(page_results, OneTime, {"ok"}, {"ok"})

SpecZeros == InitZeros /\ [][NextZeros]_vars

\* SpecRepeat: a run against a server that answers every request of a
\* year with one non-empty page
RepeatPages == PagesOf([Id : {PyStr(<<"5">>), PyStr(<<"6">>), PyStr(<<"7">>)},
                        attr : {"a1"}])

InitRepeat == InitWith({FileAbsent})

NextRepeat ==
    \/ StartCycle("cookies_and_headers", 1, {"ok"})
    \/ \E page_results \in RepeatPages :
           SamePage(page_results, OneTime, {"ok"}, {"ok"})

SpecRepeat == InitRepeat /\ [][NextRepeat]_vars

\* SpecEmpty: a run in which every non-empty page adds an entry and the
\* years are ended by empty pages
EmptyPages == PagesOf([Id : {PyStr(<<"1">>), PyStr(<<"2">>), PyStr(<<"3">>)},
                       attr : {"a1"}])

InitEmpty == InitWith({FileAbsent})

NextEmpty ==
    \/ StartCycle("cookies_and_headers", 1, {"ok"})
    \/ FetchEmpty({"ok"})
    \/ \E page_results \in EmptyPages :
           ProductivePage(page_results, OneTime, {"ok"}, {"ok"})

SpecEmpty == InitEmpty /\ [][NextEmpty]_vars

\* SpecLoad: load_existing_results at the start of a run, on a file of
\* every kind and on lists of at most MaxPageLen entries of every shape:
\* not an object, an object with "id", with "Id", with both, with neither,
\* with a blank identifier
LoadEntryShapes ==
    { [dict |-> FALSE, id |-> Missing, Id |-> Missing],
      [dict |-> TRUE, id |-> PyInt(7), Id |-> Missing],
      [dict |-> TRUE, id |-> Missing, Id |-> PyStr(<<"8", " ">>)],
      [dict |-> TRUE, id |-> None, Id |-> PyInt(9)],
      [dict |-> TRUE, id |-> Missing, Id |-> Missing],
      [dict |-> TRUE, id |-> PyStr(<<" ">>), Id |-> Missing] }

LoadFiles ==
    {FileAbsent, FileGarbage, FileUndecodable, FileNotList}
        \cup {FileList(es) : es \in SeqsUpTo(LoadEntryShapes, MaxPageLen)}

InitLoad == InitWith(LoadFiles)

NextLoad ==
    \/ StartCycle("cookies_and_headers", 1, {"ok"})
    \/ FetchFail("transport", {"ok"})
    \/ FetchEmpty({"ok"})

SpecLoad == InitLoad /\ [][NextLoad]_vars

\* SpecBatch: save_cars_to_db_batch on its own, on every sequence of
\* batches of at most MaxPageLen records that normalize, with two listings,
\* two observations of each and two times
BatchCars ==
    [Id : {PyStr(<<"7">>), PyInt(8)}, attr : {"a1", "a2"}]
Batches == PagesOf(BatchCars)

InitBatch ==
    /\ pc = "sink"
    /\ cycle = 0
    /\ year = START_YEAR
    /\ offset = INITIAL_OFFSET
    /\ all_repeat_count = DOUBLE_PAGES_TO_SKIP
    /\ collected = <<>>
    /\ seen_ids = {}
    /\ outfile = FileAbsent
    /\ db = {}
    /\ hist = NoHist
    /\ probe = NoProbe

NextBatch ==
    \E cars \in Batches, collected_at \in Times, db_out \in DbOutcomes :
        UpsertBatch(cars, collected_at, db_out)

SpecBatch == InitBatch /\ [][NextBatch]_vars

\* SpecLive: a run against a server that answers every request (a request
\* ends with a response or, after REQUEST_TIMEOUT, with a failure) with a
\* failure, an empty page or any page of records with one of two
\* identifiers; the run takes a step whenever it can
LiveIds == {PyStr(<<"5">>), PyStr(<<"6">>)}
LivePages == PagesOf([Id : LiveIds, attr : {"a1"}])

InitLive == InitWith({FileAbsent})

NextLive ==
    \/ StartCycle("cookies_and_headers", 1, {"ok"})
    \/ FetchFail("transport", {"ok"})
    \/ FetchEmpty({"ok"})
    \/ \E page_results \in LivePages :
           ProcessPage(page_results, OneTime, {"ok"}, {"ok"})

SpecLive == InitLive /\ [][NextLive]_vars /\ WF_vars(NextLive)

\* SpecEscape: cycles of main in which exceptions leave scrape_trucks:
\* from the session without headers, from the load of a file that is not
\* UTF-8 and from fetch_page; the credential file can change between two
\* cycles
EscapePages == PagesOf([Id : {PyStr(<<"7">>)}, attr : {"a1"}])

InitEscape == InitWith({FileAbsent, FileUndecodable, FileList(<<Entry(PyInt(8))>>)})

NextEscape ==
    \/ \E cred \in {"cookies_only", "cookies_and_headers"} :
           StartCycle(cred, MaxCycles, {"ok"})
    \/ FetchRaises
    \/ FetchEmpty({"ok"})
    \/ \E page_results \in EscapePages :
           ProcessPage(page_results, OneTime, {"ok"}, {"ok"})

SpecEscape == InitEscape /\ [][NextEscape]_vars

\* SpecNorm: normalize_car_id on raw identifiers of at most MaxIdLen
\* characters, on integers and on an absent identifier
IdChars == {"0", "7", " ", "a"}
NormInputs ==
    {None} \cup {PyInt(i) : i \in {0, 7, 70}}
           \cup {PyStr(str) : str \in SeqsUpTo(IdChars, MaxIdLen)}

InitNorm ==
    /\ pc = "probe"
    /\ cycle = 0
    /\ year = START_YEAR
    /\ offset = INITIAL_OFFSET
    /\ all_repeat_count = DOUBLE_PAGES_TO_SKIP
    /\ collected = <<>>
    /\ seen_ids = {}
    /\ outfile = FileAbsent
    /\ db = {}
    /\ hist = NoHist
    /\ probe \in [raw : NormInputs, results : {<<>>}]

NextNorm == Normalize \/ Renormalize

SpecNorm == InitNorm /\ [][NextNorm]_vars

----------------------------------------------------------------------------
(* Properties *)

IsPrefix(a, b) == Len(a) <= Len(b) /\ SubSeq(b, 1, Len(a)) = a

\* the run of scrape_trucks went through the years and returned
RunEnded == pc = "done" /\ hist.op \in {"page", "fetch_fail", "empty"}

\* a step that processed a non-empty page
PageStep == pc = "crawl" /\ hist'.op = "page"

\* a step that left the while True loop of the current year
YearEnded == year' # year \/ pc' = "done"

\* the stored value normalize_car_id gives to a canonical key
StoredOf(key) == normalize_car_id(PyStr(key)).stored

\* the canonical key of an entry {"id": v} of collected
EntryKey(v) == normalize_car_id(v).key

\* C1: when a run has ended, collected holds exactly one entry per
\* canonical key that was loaded at the start or met on a processed page:
\* as many entries as keys, and for every key as many entries with its
\* stored value as there are keys with that stored value.
C1_OneEntryPerKey ==
    RunEnded =>
        /\ Len(collected) = Cardinality(hist.keys)
        /\ \A k \in hist.keys :
             Cardinality({i \in DOMAIN collected : collected[i] = StoredOf(k)})
               = Cardinality({k2 \in hist.keys : StoredOf(k2) = StoredOf(k)})

\* C2: while a run crawls (after load_existing_results and after every
\* page), seen_ids is the set of the canonical keys of the entries of
\* collected and no two entries have the same canonical key.
C2_SeenIdsMatchCollected ==
    pc = "crawl" =>
        /\ seen_ids = {EntryKey(collected[i]) : i \in DOMAIN collected}
        /\ \A i, j \in DOMAIN collected :
             i # j => EntryKey(collected[i]) # EntryKey(collected[j])

\* C3: round trip: when a run has ended with a successful save of
\* collected and the next cycle loads the file, the loaded collected is
\* the saved sequence and the loaded seen_ids is the seen_ids the run had.
C3_RoundTrip ==
    [][(RunEnded /\ outfile = FileList(DumpEntries(collected)) /\ pc' = "crawl")
          => (collected' = collected /\ seen_ids' = seen_ids)]_vars

\* a string of decimal digits that is longer than the decimal form of its value
RedundantLeadingZero(str) == IsDigit(str) /\ Len(str) > 1 /\ str[1] = "0"

\* C4 as stated: normalizing the string form of the stored value returns
\* the canonical key of the first normalization.
C4_Idempotent ==
    Len(probe.results) = 2 =>
        /\ probe.results[2].ok
        /\ probe.results[2].key = probe.results[1].key

\* C4 amended: normalizing the string form of the stored value returns the
\* same stored value, and the same canonical key exactly when the trimmed
\* raw identifier is not a digit string with a redundant leading zero,
\* that is when it is not all digits or is the decimal form of its value.
C4_IdempotentUnlessLeadingZero ==
    Len(probe.results) = 2 =>
        /\ probe.results[2].ok
        /\ probe.results[2].stored = probe.results[1].stored
        /\ (probe.results[2].key = probe.results[1].key)
             <=> ~RedundantLeadingZero(Strip(ToStr(probe.raw)))

C4_Witness ==
    /\ Len(probe.results) = 2
    /\ probe.raw = PyStr(<<" ", "0", "7">>)
    /\ probe.results[1].key = <<"0", "7">>
    /\ probe.results[2].key = <<"7">>

\* C5: in a year the budget is the threshold minus the number of pages
\* that added nothing; a page that adds nothing takes one from it, a page
\* that adds something leaves it; the year is ended by a page exactly when
\* that page is the (threshold + 1)-th page of the year that added nothing.
C5_BudgetStopsYear ==
    [][PageStep =>
         LET zero == hist'.new_count = 0
             count == hist.zero_pages + (IF zero THEN 1 ELSE 0)
         IN  /\ all_repeat_count = DOUBLE_PAGES_TO_SKIP - hist.zero_pages
             /\ YearEnded <=> (zero /\ count = DOUBLE_PAGES_TO_SKIP + 1)
             /\ ~YearEnded =>
                  all_repeat_count' = all_repeat_count - (IF zero THEN 1 ELSE 0)]_vars

\* the last year was ended by the budget, after a page that added entries
C5_Witness ==
    /\ pc = "done"
    /\ hist.op = "page"
    /\ all_repeat_count = -1
    /\ hist.zero_pages = DOUBLE_PAGES_TO_SKIP + 1
    /\ offset > DOUBLE_PAGES_TO_SKIP * OFFSET_STEP

\* C6: a failed fetch (of each kind) leaves collected and seen_ids as they
\* are and ends the year: the run goes on with offset 0 of the next older
\* year, or after the last year with the final save; a run never goes back
\* to a year it has left.
C6_FetchFailureSkipsYear ==
    [][/\ (pc = "crawl" /\ hist'.op = "fetch_fail") =>
            /\ hist'.fetch \in FetchErrors
            /\ collected' = collected
            /\ seen_ids' = seen_ids
            /\ IF year > MIN_YEAR
               THEN pc' = "crawl" /\ year' = year - 1 /\ offset' = INITIAL_OFFSET
               ELSE pc' = "done" /\ hist'.final_save = <<collected>>
       /\ (pc = "crawl" /\ pc' = "crawl") => year' <= year]_vars

C6_Witness ==
    /\ hist.op = "fetch_fail"
    /\ hist.fetch = "decode"
    /\ pc = "crawl"
    /\ year = MIN_YEAR
    /\ collected # <<>>

\* C7: when the process is killed, the entries load_existing_results
\* recovers from the file are a prefix of collected that lacks at most the
\* new entries of the page being processed, and they are not fewer than
\* the entries recoverable before the step in which the kill happened.
C7_CrashSafe ==
    [][(pc = "crawl" /\ pc' = "killed") =>
         LET recovered == load_existing_results(outfile', "ok").collected
             before == load_existing_results(outfile, "ok").collected
         IN  /\ IsPrefix(recovered, collected')
             /\ Len(recovered) >= Len(collected') - hist'.new_count
             /\ Len(recovered) >= Len(before)]_vars

\* C8: a page that added entries is followed, in the same iteration, by a
\* save_results call with the whole collected sequence; a page that added
\* none makes no such call and leaves the file alone.
C8_SaveAfterProductivePage ==
    [][PageStep =>
         /\ hist'.new_count = Len(collected') - Len(collected)
         /\ IF hist'.new_count > 0
            THEN hist'.page_save = <<collected'>>
            ELSE /\ hist'.page_save = <<>>
                 /\ pc' = "crawl" => outfile' = outfile]_vars

C8_Witness ==
    /\ hist.op = "page"
    /\ pc = "crawl"
    /\ hist.new_count = 1
    /\ Len(collected) > 1
    /\ hist.page_save = <<collected>>
    /\ outfile = FileList(DumpEntries(collected))

Normalizes(car) == normalize_car_id(car.Id).ok

\* the last record of the batch with the identifier of record j
LastWithId(batch, j) ==
    CHOOSE m \in DOMAIN batch :
        /\ ToStr(batch[m].Id) = ToStr(batch[j].Id)
        /\ \A n \in DOMAIN batch : ToStr(batch[n].Id) = ToStr(batch[j].Id) => n <= m

\* after a successful write the sink has one row for the identifier of
\* every record of the batch, with the attributes of the last such record
BatchInSink(batch) ==
    \A j \in DOMAIN batch :
        {r \in db : r.id = ToStr(batch[j].Id)}
          = {[id |-> ToStr(batch[j].Id), attr |-> batch[LastWithId(batch, j)].attr,
              collected_at |-> hist.collected_at]}

\* C10 as stated: every record of a processed page is in the batch handed
\* to the sink, and after a successful write the sink holds the attributes
\* seen on the page.
C10_EveryRecordInBatch ==
    hist.op = "page" =>
        /\ hist.cars_to_save = hist.page
        /\ hist.db_out = "ok" => BatchInSink(hist.cars_to_save)

\* C10 amended: the batch is the records of the page whose identifier
\* normalizes, new or already collected, in page order; after a successful
\* write the sink holds for each of them the attributes of the last record
\* of the page with that identifier.
C10_NormalizedRecordsInBatch ==
    hist.op = "page" =>
        /\ hist.cars_to_save = SelectSeq(hist.page, Normalizes)
        /\ hist.db_out = "ok" => BatchInSink(hist.cars_to_save)

\* a page with a record without identifier and a record already collected
C10_Witness ==
    /\ hist.op = "page"
    /\ hist.db_out = "ok"
    /\ hist.new_count = 0
    /\ Len(hist.page) = 2
    /\ Len(hist.cars_to_save) = 1
    /\ db # {}

\* a step of save_cars_to_db_batch on its own
BatchStep == pc = "sink" /\ hist'.op = "batch"

\* the identifiers (as the sink keys them) of the records of a batch
BatchIds(batch) == {ToStr(batch[j].Id) : j \in DOMAIN batch}

\* C11: the sink never holds two rows with one identifier; a committed
\* batch leaves, for every identifier in it, the single row made of the
\* attributes of the last record of the batch with that identifier and of
\* the batch's collected_at, whatever row was there before, and leaves the
\* rows of all other identifiers as they were.  By induction the row of an
\* identifier is the last record upserted for it.
C11_ReplaceNotMerge ==
    [][BatchStep =>
         /\ \A r1, r2 \in db' : r1.id = r2.id => r1 = r2
         /\ hist'.db_out = "ok" =>
              /\ (BatchInSink(hist.cars_to_save))'
              /\ {r \in db' : r.id \notin BatchIds(hist'.cars_to_save)}
                   = {r \in db : r.id \notin BatchIds(hist'.cars_to_save)}]_vars

\* a batch with two observations of listing 7 replaced the row of 7 whole,
\* next to a row of listing 8 from an earlier batch
C11_Witness ==
    /\ hist.op = "batch"
    /\ hist.db_out = "ok"
    /\ hist.collected_at = 2
    /\ hist.cars_to_save = << [Id |-> PyStr(<<"7">>), attr |-> "a1"],
                              [Id |-> PyStr(<<"7">>), attr |-> "a2"] >>
    /\ db = { [id |-> <<"7">>, attr |-> "a2", collected_at |-> 2],
              [id |-> <<"8">>, attr |-> "a1", collected_at |-> 1] }

\* the record carries an identifier for the sink
CarriesId(car) == extract_car_data(car).ok

CrawlStep == pc = "crawl" /\ hist'.op \in {"page", "fetch_fail", "empty"}

\* C14: a save_results call that fails does not end the run: after the
\* failed save of a page the run is at the next offset of the year with the
\* budget it had and with the new entries of the page in collected; and
\* every save_results call that succeeds, of a page or the final one,
\* leaves the file equal to the whole of collected in its order, whatever
\* saves failed before it in the run.
C14_FailedSaveIsRetried ==
    [][CrawlStep =>
         /\ hist'.save_out = "ok" => outfile' = FileList(DumpEntries(collected'))
         /\ (hist'.save_out \in {"fail_open", "fail_write"} /\ hist'.page_save # <<>>) =>
              /\ pc' = "crawl"
              /\ year' = year
              /\ offset' = offset + OFFSET_STEP
              /\ all_repeat_count' = all_repeat_count
              /\ IsPrefix(collected, collected')
              /\ Len(collected') = Len(collected) + hist'.new_count
              /\ hist'.new_count > 0
         /\ (hist'.save_out \in {"fail_open", "fail_write"} /\ hist'.final_save # <<>>) =>
              /\ pc' = "done"
              /\ hist'.final_save = <<collected'>>]_vars

\* the save of the page that added an entry to a loaded one failed, the
\* final save succeeded: the file has both entries
C14_Witness ==
    /\ pc = "done"
    /\ hist.save_out = "ok"
    /\ hist.failed_saves = 1
    /\ hist.final_save = <<collected>>
    /\ Len(collected) = 2
    /\ outfile = FileList(DumpEntries(collected))

\* the identifier of an entry of the file: "id" when the key is there,
\* else "Id"
EntryRawId(entry) == IF entry.id.kind # "missing" THEN entry.id ELSE entry.Id

\* the entry is an object whose identifier normalizes
Loadable(entry) == entry.dict /\ normalize_car_id(EntryRawId(entry)).ok

\* C15: the start of a run never ends in load_existing_results: the run
\* enters the year loop; from a file that is not a list it starts with an
\* empty collected and seen_ids, from a list with the stored values, in
\* file order, and the keys of the entries that are objects with an
\* identifier that normalizes.
C15_LoadNeverAborts ==
    [][(pc = "idle" /\ cycle' = 1) =>
         LET entries == IF outfile.kind = "list"
                        THEN SelectSeq(outfile.entries, Loadable) ELSE <<>>
         IN  /\ hist'.op = "start"
             /\ pc' = "crawl"
             /\ collected' = [i \in DOMAIN entries |->
                                 normalize_car_id(EntryRawId(entries[i])).stored]
             /\ seen_ids' = {normalize_car_id(EntryRawId(entries[i])).key :
                                 i \in DOMAIN entries}]_vars

\* C16: when a cycle after the first has ended, every canonical key that
\* was recoverable from the file when the cycle began, that is at the end
\* of the cycle before it, is recoverable from the file.
C16_Accumulates ==
    (pc = "done" /\ cycle > 1) => hist.at_start \subseteq Recoverable(outfile)

\* C17: a cycle that finds the credential file absent, unparseable or with
\* an empty cookie list ends in the step that starts it: no request is
\* made in it (a request is made only inside the year loop), no
\* save_results call and no batch, and the file and the sink are as before.
C17_NoCredentialNoRun ==
    [][/\ hist'.cred \in {"absent", "unparseable", "no_cookies"} =>
            /\ pc' = "done"
            /\ outfile' = outfile
            /\ db' = db
            /\ hist'.fetch = "none"
            /\ hist'.page_save = <<>>
            /\ hist'.final_save = <<>>
            /\ hist'.cars_to_save = <<>>
       /\ hist'.fetch # "none" => pc = "crawl"]_vars

\* a run ended on a credential file with an empty cookie list, next to a
\* result file it left alone
C17_Witness ==
    /\ pc = "done"
    /\ cycle = 1
    /\ hist.cred = "no_cookies"
    /\ hist.op = "nocred"
    /\ outfile = FileList(<<Entry(PyInt(8))>>)
    /\ db = {}

\* the trimmed string forms of the identifiers of a page that normalize
TrimmedForms(page_results) ==
    {Strip(ToStr(page_results[j].Id)) :
        j \in {i \in DOMAIN page_results : Normalizes(page_results[i])}}

\* C18: a page adds one entry for every trimmed string form on it that was
\* not seen before, and none for a form that was seen, whatever its
\* stored value: seen_ids gains the forms, collected one entry with the
\* stored value of each new form; so collected holds as many entries 42 as
\* there are forms seen that are digits of value 42 ("00042" and "42" are
\* two).
C18_LeadingZerosAreDistinct ==
    [][PageStep =>
         LET forms == TrimmedForms(hist'.page)
         IN  /\ seen_ids' = seen_ids \cup forms
             /\ Len(collected') = Len(collected) + Cardinality(forms \ seen_ids)
             /\ \A f \in forms \ seen_ids :
                  \E i \in (Len(collected) + 1)..Len(collected') :
                      collected'[i] = StoredOf(f)
             /\ Cardinality({i \in DOMAIN collected' : collected'[i] = PyInt(42)})
                  = Cardinality({f \in seen_ids' : IsDigit(f) /\ ParseInt(f) = 42})]_vars

\* "00042" was collected as 42, then a page with "42" added a second 42
C18_Witness ==
    /\ hist.op = "page"
    /\ hist.page = <<[Id |-> PyStr(<<"4", "2">>), attr |-> "a1"]>>
    /\ hist.new_count = 1
    /\ seen_ids = {<<"0", "0", "0", "4", "2">>, <<"4", "2">>}
    /\ collected = <<PyInt(42), PyInt(42)>>

\* C19: in a year in which every request is answered with one page whose
\* identifiers were not collected when the year began, the year is ended
\* by a page, and exactly by the page of request number threshold + 2
\* (K + 1 with K = threshold + 1); from the first page on seen_ids is what
\* it was when the year began and the identifiers of the page, one entry
\* each.
C19_SamePageStopsByBudget ==
    [][PageStep =>
         LET fetches == (offset - INITIAL_OFFSET) \div OFFSET_STEP + 1
             keys == PageKeys(hist'.page)
         IN  keys \cap hist.year_seen = {} =>
               /\ YearEnded <=> fetches = DOUBLE_PAGES_TO_SKIP + 2
               /\ seen_ids' = hist.year_seen \cup keys
               /\ Len(collected') = Cardinality(hist.year_seen) + Cardinality(keys)]_vars

\* the last year was answered with the page 5, 6 at every offset, after 7
\* was collected: it ended at the twelfth request
C19_Witness ==
    /\ pc = "done"
    /\ hist.op = "page"
    /\ hist.page = <<[Id |-> PyStr(<<"5">>), attr |-> "a1"],
                     [Id |-> PyStr(<<"6">>), attr |-> "a1"]>>
    /\ hist.year_seen = {<<"7">>}
    /\ seen_ids = {<<"5">>, <<"6">>, <<"7">>}
    /\ offset = INITIAL_OFFSET + (DOUBLE_PAGES_TO_SKIP + 1) * OFFSET_STEP
    /\ all_repeat_count = -1

\* the positions of a page that hold the first record of the page with a
\* canonical key that is not in seen
FirstSeen(page_results, seen) ==
    {j \in DOMAIN page_results :
        /\ Normalizes(page_results[j])
        /\ normalize_car_id(page_results[j].Id).key \notin seen
        /\ \A i \in 1..(j - 1) :
             Normalizes(page_results[i]) =>
               normalize_car_id(page_results[i].Id).key
                 # normalize_car_id(page_results[j].Id).key}

\* the n-th position of a set of positions
NthOf(positions, n) ==
    CHOOSE j \in positions : Cardinality({i \in positions : i < j}) = n - 1

\* C20: an empty page ends the year and leaves collected, seen_ids and
\* the budget as they are (the next year starts at offset 0, or the run
\* ends with the budget it had); in a year whose pages each added an entry
\* the budget is the threshold at every step and no page ends the year;
\* and a page appends the identifiers that are new, once each, in the
\* order of their first record, an all-digit identifier as an integer.
C20_EmptyPageEndsYear ==
    [][/\ (pc = "crawl" /\ hist'.op = "empty") =>
            /\ hist'.fetch = "empty"
            /\ collected' = collected
            /\ seen_ids' = seen_ids
            /\ IF year > MIN_YEAR
               THEN pc' = "crawl" /\ year' = year - 1 /\ offset' = INITIAL_OFFSET
               ELSE pc' = "done" /\ all_repeat_count' = all_repeat_count
            /\ hist.zero_pages = 0 => all_repeat_count = DOUBLE_PAGES_TO_SKIP
       /\ (PageStep /\ hist.zero_pages = 0 /\ hist'.new_count > 0) =>
            /\ ~YearEnded
            /\ all_repeat_count' = DOUBLE_PAGES_TO_SKIP
       /\ PageStep =>
            LET first == FirstSeen(hist'.page, seen_ids)
            IN  /\ Len(collected') = Len(collected) + Cardinality(first)
                /\ IsPrefix(collected, collected')
                /\ \A n \in 1..Cardinality(first) :
                     LET key == normalize_car_id(hist'.page[NthOf(first, n)].Id).key
                     IN  collected'[Len(collected) + n] =
                           IF IsDigit(key) THEN PyInt(ParseInt(key)) ELSE PyStr(key)]_vars

\* the first year was answered with 1, 2 then 2, 3 then an empty page
C20_Witness ==
    /\ hist.op = "empty"
    /\ pc = "crawl"
    /\ year = START_YEAR - 1
    /\ offset = INITIAL_OFFSET
    /\ all_repeat_count = DOUBLE_PAGES_TO_SKIP
    /\ hist.year_seen = {<<"1">>, <<"2">>, <<"3">>}
    /\ collected = <<PyInt(1), PyInt(2), PyInt(3)>>
    /\ outfile = FileList(DumpEntries(collected))

\* C21: the budget is the threshold when a year begins, in the first year
\* of a run and in every year after it, whatever the year before left of
\* its budget; while a year is paginated no step makes it larger, and a
\* page that added entries leaves it as it is.
C21_BudgetPerYear ==
    [][/\ (pc' = "crawl" /\ (pc # "crawl" \/ year' # year)) =>
            /\ all_repeat_count' = DOUBLE_PAGES_TO_SKIP
            /\ offset' = INITIAL_OFFSET
       /\ (pc = "crawl" /\ year' = year) =>
            /\ all_repeat_count' <= all_repeat_count
            /\ (PageStep /\ hist'.new_count > 0) =>
                  all_repeat_count' = all_repeat_count
       /\ (pc = "crawl" /\ year' # year) => all_repeat_count' >= all_repeat_count]_vars

\* the year before the last was ended by its budget, on a page that added
\* nothing; the last year begins with the whole threshold
C21_Witness ==
    /\ pc = "crawl"
    /\ year = MIN_YEAR
    /\ offset = INITIAL_OFFSET
    /\ hist.op = "page"
    /\ hist.new_count = 0
    /\ all_repeat_count = DOUBLE_PAGES_TO_SKIP
    /\ collected # <<>>

\* C22: every request of a run is made in a step of the year loop, for the
\* year of the loop; the first is for START_YEAR, a step leaves the year
\* as it is or goes to the year before it, never below MIN_YEAR, and the
\* run returns only from MIN_YEAR: the years requested are START_YEAR down
\* to MIN_YEAR, each in one unbroken stretch of requests.
C22_YearsDescend ==
    [][/\ (pc # "crawl" /\ pc' = "crawl") => year' = START_YEAR
       /\ CrawlStep =>
            /\ year \in MIN_YEAR..START_YEAR
            /\ year' = year \/ (year' = year - 1 /\ year > MIN_YEAR)
            /\ year' # year => pc' = "crawl"
            /\ pc' = "done" => year = MIN_YEAR
       /\ hist'.fetch # "none" => CrawlStep]_vars

\* the run went through the years and returned from MIN_YEAR, abandoned
\* at its first request
C22_Witness ==
    /\ RunEnded
    /\ year = MIN_YEAR
    /\ offset = INITIAL_OFFSET
    /\ hist.op = "fetch_fail"
    /\ collected # <<>>

\* C23: a step of the year loop requests the pair (year, offset); the pair
\* requested next in the cycle is (year, offset + OFFSET_STEP) or
\* (year - 1, INITIAL_OFFSET), so the pairs of a cycle are strictly ordered
\* and none is requested twice, and the offsets of a year are
\* INITIAL_OFFSET, then one OFFSET_STEP more at a time.  The offset
\* advances exactly after a non-empty page that left the budget at zero or
\* more; a failed or empty page ends the year.
C23_NoPairTwice ==
    [][/\ (pc # "crawl" /\ pc' = "crawl") =>
            (year' = START_YEAR /\ offset' = INITIAL_OFFSET)
       /\ CrawlStep =>
            /\ pc' = "crawl" =>
                 \/ year' = year /\ offset' = offset + OFFSET_STEP
                 \/ year' = year - 1 /\ offset' = INITIAL_OFFSET
            /\ (pc' = "crawl" /\ year' = year) <=>
                 /\ hist'.op = "page"
                 /\ all_repeat_count - (IF hist'.new_count = 0 THEN 1 ELSE 0) >= 0
            /\ hist'.op \in {"fetch_fail", "empty"} => YearEnded]_vars

\* the last year is at its third offset, after two pages of which one
\* added nothing
C23_Witness ==
    /\ pc = "crawl"
    /\ year = MIN_YEAR
    /\ offset = INITIAL_OFFSET + 2 * OFFSET_STEP
    /\ hist.op = "page"
    /\ all_repeat_count = DOUBLE_PAGES_TO_SKIP - 1

\* C24: a cycle that finds a credential file with a cookie list that is
\* not empty and no headers goes on as one that finds both: it enters the
\* year loop at START_YEAR and offset 0 with the entries loaded from the
\* file, and its next step is a request.
C24_CookiesOnlyIsUsable ==
    [][hist'.cred = "cookies_only" =>
         /\ hist'.op = "start"
         /\ pc' = "crawl"
         /\ year' = START_YEAR
         /\ offset' = INITIAL_OFFSET
         /\ seen_ids' = Recoverable(outfile)]_vars

\* C25: from the load of the file on, every step of a run leaves collected
\* a prefix of what it becomes and seen_ids a subset of what it becomes;
\* inside the for loop over a page the same holds from each record to the
\* next, and the step ends with what the loop reached at the last record.
C25_AppendOnly ==
    [][pc = "crawl" =>
         /\ IsPrefix(collected, collected')
         /\ seen_ids \subseteq seen_ids'
         /\ PageStep =>
              LET at(k) == ScanPage(hist'.page, k, collected, seen_ids)
              IN  /\ \A k \in 1..Len(hist'.page) :
                       /\ IsPrefix(at(k - 1).collected, at(k).collected)
                       /\ at(k - 1).seen_ids \subseteq at(k).seen_ids
                  /\ collected' = at(Len(hist'.page)).collected
                  /\ seen_ids' = at(Len(hist'.page)).seen_ids]_vars

\* a page added 7 behind the 8 loaded from the file
C25_Witness ==
    /\ pc = "crawl"
    /\ hist.op = "page"
    /\ hist.new_count = 1
    /\ collected = <<PyInt(8), PyInt(7)>>
    /\ seen_ids = {<<"8">>, <<"7">>}

\* C26: every step of the year loop begins with a request and makes one
\* pause after it, before the next request of the run can be made: after a
\* page that goes on to the next offset, and after the year has ended by
\* an empty page, a failed fetch or the budget.
C26_PauseBetweenRequests ==
    [][CrawlStep =>
         /\ hist'.fetch # "none"
         /\ hist'.pauses >= 1]_vars

\* the year before the last was ended by an empty page at its first
\* request; the pause was made before the first request of the last year
C26_Witness ==
    /\ pc = "crawl"
    /\ year = MIN_YEAR
    /\ offset = INITIAL_OFFSET
    /\ hist.op = "empty"
    /\ hist.pauses = 1

\* the canonical keys the server of SpecLive can return
LiveKeys == UNION {PageKeys(page_results) : page_results \in LivePages}

\* the number of the request of the current step among the requests of its
\* year; the requests before it were answered with non-empty pages
RequestNo == (offset - INITIAL_OFFSET) \div OFFSET_STEP + 1

C28_SinkKeyIsCanonicalKey ==
    [][(PageStep /\ hist'.db_out = "ok") =>
         /\ \A key \in seen_ids' \ seen_ids : \E r \in db' : r.id = key
         /\ \A r \in db' \ db : r.id \in PageKeys(hist'.page)]_vars

\* C29: an exception that leaves scrape_trucks ends the cycle and not the
\* process: main is where it is after a return, the next iteration can
\* begin, and when it does CYCLE_PAUSE has been slept, the credential file
\* is read again and, with usable credentials and a file that loads,
\* collected and seen_ids are what load_existing_results makes of the
\* file, whatever the memory of the cycle before held.
C29_EscapedErrorEndsCycleOnly ==
    /\ [](hist.op = "exc" =>
            /\ pc = "done"
            /\ cycle < MaxCycles =>
                 ENABLED StartCycle("cookies_and_headers", MaxCycles, {"ok"}))
    /\ [][(hist.op = "exc" /\ cycle' # cycle) =>
            /\ cycle' = cycle + 1
            /\ hist'.cycle_pause = 1
            /\ hist'.cred \in Credentials
            /\ (load_cookies(hist'.cred) /\ load_headers(hist'.cred)
                  /\ ~load_existing_results(outfile, "ok").raised) =>
                 /\ pc' = "crawl"
                 /\ collected' = load_existing_results(outfile, "ok").collected
                 /\ seen_ids' = Recoverable(outfile)
                 /\ year' = START_YEAR
                 /\ offset' = INITIAL_OFFSET
                 /\ all_repeat_count' = DOUBLE_PAGES_TO_SKIP]_vars

\* the first cycle saved 7 behind the loaded 8 and was ended by an
\* exception of fetch_page; the second has loaded both from the file
C29_Witness ==
    /\ cycle = 2
    /\ pc = "crawl"
    /\ hist.op = "start"
    /\ hist.after = "exc"
    /\ hist.cycle_pause = 1
    /\ hist.cred = "cookies_and_headers"
    /\ collected = <<PyInt(8), PyInt(7)>>
    /\ seen_ids = {<<"8">>, <<"7">>}

====
